---- MODULE Spec2Model ----
(***************************************************************************)
(* Model of mail_deduplicate/deduplicate.py: the Deduplicate engine        *)
(* (add_source, hash_all, select_all, remove_selection, check_stats) and   *)
(* the DuplicateSet it builds for every hash bucket (check_differences,    *)
(* diff, select_candidates).                                               *)
(*                                                                         *)
(* A mail is identified by its uid <<source_path, mail_id>>.  The mailbox  *)
(* backend, the mail's hash_key/size/body_lines and the strategy are       *)
(* collaborators outside deduplicate.py: what they return is an input,     *)
(* drawn when the code reads it.                                           *)
(***************************************************************************)
EXTENDS Integers, Sequences, FiniteSets, TLC

\* Bounds of the model.
MaxSources == 2     \* number of distinct source paths
MaxMails == 3       \* total number of mails over all the sources (see MailsFound)
MaxHash == 2        \* number of distinct hash keys
MaxCalls == 2       \* number of calls of remove_selection on one Deduplicate

Paths == 1..MaxSources
Hashes == 1..MaxHash
TooFewHeaders == 0          \* mail.hash_key raises TooFewHeaders
Thresholds == {-1, 0}       \* values of conf.size_threshold / content_threshold
UnicodeDecodeError == <<"UnicodeDecodeError">>  \* mail.body_lines raises

\* The mails a store may hold, as far as check_differences looks at them:
\* their size and their body_lines.  Two of them have equal or different
\* sizes and equal, different or undecodable bodies, in every combination.
MailContents ==
    {[size |-> 1, body_lines |-> <<"x">>],
     [size |-> 1, body_lines |-> <<"y">>],
     [size |-> 2, body_lines |-> <<"x">>],
     [size |-> 1, body_lines |-> UnicodeDecodeError]}

VARIABLES
    conf,        \* Deduplicate.conf: size_threshold, content_threshold, strategy, dry_run
    sources,     \* Deduplicate.sources: the registered paths, in registration order
    box,         \* box[p]: the mail ids the store at path p holds
    closed,      \* closed[p]: how many times box.close() was called on p
    removals,    \* the box.remove(mail_id) calls performed, in order, as uids
    hash_key,    \* hash_key[uid]: mail.hash_key of every mail visited so far
    mails,       \* Deduplicate.mails: <<[hash_key, mail_set]>> in first-seen order
    selection,   \* Deduplicate.selection: sequence of uids
    stats,       \* Deduplicate.stats
    duplicates,  \* the DuplicateSet select_all built last (pool, stats, selected_uids)
    pc,          \* the operation the run is in
    idx,         \* position of the running loop (mail, bucket or pair number)
    checked,     \* the result of check_stats: "no" (not run), "ok", "AssertionError"
    calls        \* how many times remove_selection was called

vars == <<conf, sources, box, closed, removals, hash_key, mails, selection,
          stats, duplicates, pc, idx, checked, calls>>

----------------------------------------------------------------------------
\* Counter

StatNames == {"mail_found", "mail_rejected", "mail_retained", "mail_unique",
              "mail_duplicates", "mail_discarded", "mail_selected",
              "mail_copied", "mail_moved", "mail_deleted",
              "set_total", "set_ignored", "set_skipped",
              "set_rejected_encoding", "set_rejected_size",
              "set_rejected_content", "set_deduplicated"}

SetOutcomes == {"set_ignored", "set_skipped", "set_rejected_encoding",
                "set_rejected_size", "set_rejected_content", "set_deduplicated"}

\* Counter(): every key reads 0.
Counter == [k \in StatNames |-> 0]

\* c[k] += n
Inc(c, k, n) == [c EXCEPT ![k] = @ + n]

\* c += d (Counter.__iadd__; the counts are never negative, and a key it
\* drops for being 0 still reads 0).
Merge(c, d) == [k \in StatNames |-> c[k] + d[k]]

----------------------------------------------------------------------------
\* Sequences and sets

Range(s) == {s[i] : i \in 1..Len(s)}

\* The sum of f[x] over the x of S.
RECURSIVE Sum(_, _)
Sum(f, S) ==
    IF S = {} THEN 0
    ELSE LET x == CHOOSE y \in S : TRUE
         IN f[x] + Sum(f, S \ {x})

\* unique(seq): the first occurrence of every element, in order.
RECURSIVE unique(_)
unique(s) ==
    IF s = <<>> THEN <<>>
    ELSE LET r == unique(SubSeq(s, 1, Len(s) - 1))
             e == s[Len(s)]
         IN IF e \in Range(r) THEN r ELSE Append(r, e)

\* The orders in which a set can be iterated: any element first, then the
\* others in any order.
RECURSIVE Orders(_)
Orders(S) ==
    IF S = {} THEN {<<>>}
    ELSE UNION {{<<x>> \o rest : rest \in Orders(S \ {x})} : x \in S}

\* A mail is what its source path and its id in the box identify: two mails
\* are equal when they are the same mail, and no two entries of the boxes are.
MailUid(source_path, mail_id) == <<source_path, mail_id>>

\* box.iteritems() of the sources in registration order: the uids hash_all visits.
RECURSIVE BoxItems(_, _)
BoxItems(p, ids) ==
    IF ids = {} THEN <<>>
    ELSE LET m == CHOOSE i \in ids : \A j \in ids : i <= j
         IN <<MailUid(p, m)>> \o BoxItems(p, ids \ {m})

RECURSIVE Visit(_, _)
Visit(srcs, b) ==
    IF srcs = <<>> THEN <<>>
    ELSE BoxItems(Head(srcs), b[Head(srcs)]) \o Visit(Tail(srcs), b)

----------------------------------------------------------------------------
\* DuplicateSet

\* A Mail of a pool: its uid and the attributes check_differences reads.
Mail(uid, size, body) == [uid |-> uid, size |-> size, body_lines |-> body]

abs(n) == IF n < 0 THEN -n ELSE n

\* len("".join(unified_diff(a, b, fromfile="a", tofile="b", n=0, lineterm="\n")))
\* of two one-line bodies: nothing when they are equal, else the two file
\* header lines, one hunk header and the removed and the added line.
diff(mail_a, mail_b) ==
    IF mail_a.body_lines = mail_b.body_lines THEN 0
    ELSE Len("--- a.") + Len("+++ b.") + Len("@@ -1 +1 @@.")
         + (Len("-") + Len(mail_a.body_lines[1]) + 1)
         + (Len("+") + Len(mail_b.body_lines[1]) + 1)

\* The loop of check_differences over combinations(self.pool, 2), the pool
\* iterated in the order ord: the mail at i is paired with each later mail at
\* j, in order.  The first check that fails raises, "ok" when none does.
RECURSIVE CheckPairs(_, _, _, _)
CheckPairs(ord, i, j, cf) ==
    IF i >= Len(ord) THEN "ok"
    ELSE LET mail_a == ord[i]
             mail_b == ord[j]
             next_i == IF j < Len(ord) THEN i ELSE i + 1
             next_j == IF j < Len(ord) THEN j + 1 ELSE i + 2
         IN IF /\ cf.size_threshold > -1
               /\ abs(mail_a.size - mail_b.size) > cf.size_threshold
            THEN "SizeDiffAboveThreshold"
            ELSE IF cf.content_threshold > -1
                 THEN IF \/ mail_a.body_lines = UnicodeDecodeError
                         \/ mail_b.body_lines = UnicodeDecodeError
                      THEN "UnicodeDecodeError"
                      ELSE IF diff(mail_a, mail_b) > cf.content_threshold
                           THEN "ContentDiffAboveThreshold"
                           ELSE CheckPairs(ord, next_i, next_j, cf)
                 ELSE CheckPairs(ord, next_i, next_j, cf)

check_differences(ord, cf) ==
    IF cf.size_threshold < 0 /\ cf.content_threshold < 0 THEN "ok"
    ELSE CheckPairs(ord, 1, 2, cf)

\* What apply_strategy may return for the pool of the mails of mail_set: the
\* uids of any subset of them, in any order.
apply_strategy(mail_set) ==
    UNION {Orders(T) : T \in SUBSET mail_set}

\* size and body_lines are lazy attributes of a mail: a check that is
\* disabled, or a set of one mail, reads neither, and the attribute stays
\* "unread".  What the mails of mail_set may show of their contents:
MailAttributes(mail_set, cf) ==
    LET many == Cardinality(mail_set) > 1
        shown(c) ==
            [size |-> IF many /\ cf.size_threshold > -1
                      THEN c.size ELSE "unread",
             body_lines |-> IF many /\ cf.content_threshold > -1
                            THEN c.body_lines ELSE "unread"]
    IN [mail_set -> {shown(c) : c \in MailContents}]

\* DuplicateSet.pool: the frozenset of the mails of mail_set.
frozenset(mail_set, attr) ==
    {Mail(uid, attr[uid].size, attr[uid].body_lines) : uid \in mail_set}

\* The orders in which combinations(self.pool, 2) may iterate the frozenset
\* of the mails of mail_set, as sequences of uids; <<>> when check_differences
\* returns before its loop or is not called.
IterOrders(mail_set, cf) ==
    IF /\ Cardinality(mail_set) > 1
       /\ (cf.size_threshold > -1 \/ cf.content_threshold > -1)
    THEN Orders(mail_set) ELSE {<<>>}

\* The returns of select_candidates: the set's Counter and the candidates.
\* <<>> also stands for the None of the early returns, which select_all
\* treats the same (if candidates:).

\* Faulty variant of ignore_set: the unique mail is not counted as discarded.
ignore_set_undiscarded(size) ==
    [stats |-> Inc(Inc(Counter, "mail_unique", size), "set_ignored", 1),
     candidates |-> <<>>]

\* "Ignore set: only one message found."
ignore_set(size) ==
    [stats |-> Inc(Inc(Inc(Counter, "mail_unique", size),
                       "mail_discarded", size), "set_ignored", 1),
     candidates |-> <<>>]

\* Faulty variant of reject_set: the rejection is not counted as an outcome.
reject_set_uncounted(st, size, differences) ==
    [stats |-> Inc(st, "mail_discarded", size), candidates |-> <<>>]

\* The except clauses: the set is rejected under the counter of what
\* check_differences raised.
reject_set(st, size, differences) ==
    LET counter == IF differences = "UnicodeDecodeError"
                   THEN "set_rejected_encoding"
                   ELSE IF differences = "SizeDiffAboveThreshold"
                        THEN "set_rejected_size"
                        ELSE "set_rejected_content"
    IN [stats |-> Inc(Inc(st, "mail_discarded", size), counter, 1),
        candidates |-> <<>>]

\* "No strategy selected, skip selection."
skip_set(st, size) ==
    [stats |-> Inc(Inc(st, "mail_discarded", size), "set_skipped", 1),
     candidates |-> <<>>]

\* Faulty variant of select_subset: a set matching as a whole is not skipped.
select_subset_all(st, size, selected_uids) ==
    LET candidate_count == Len(selected_uids)
    IN [stats |-> Inc(Inc(Inc(st, "mail_selected", candidate_count),
                          "mail_discarded", size - candidate_count),
                      "set_deduplicated", 1),
        candidates |-> selected_uids]

\* What follows apply_strategy: a set matching as a whole is skipped, else
\* the selected uids are the candidates.
select_subset(st, size, selected_uids) ==
    LET candidate_count == Len(selected_uids)
    IN IF candidate_count = size
       THEN [stats |-> Inc(Inc(st, "mail_discarded", candidate_count),
                           "set_skipped", 1),
             candidates |-> <<>>]
       ELSE [stats |-> Inc(Inc(Inc(st, "mail_selected", candidate_count),
                               "mail_discarded", size - candidate_count),
                           "set_deduplicated", 1),
             candidates |-> selected_uids]

\* Faulty variant of select_candidates: mail_duplicates is counted before
\* the test for a set of one mail.
select_candidates_count_first(pool, differences, cf, selected_uids) ==
    LET size == Cardinality(pool)
        st == Inc(Counter, "mail_duplicates", size)
    IN IF size = 1
       THEN [stats |-> Merge(st, ignore_set(size).stats), candidates |-> <<>>]
       ELSE IF differences # "ok" THEN reject_set(st, size, differences)
       ELSE IF cf.strategy = "" THEN skip_set(st, size)
       ELSE select_subset(st, size, selected_uids)

\* Faulty variant of select_candidates: the strategy is applied without the
\* test that one is configured.
select_candidates_unconfigured(pool, differences, cf, selected_uids) ==
    LET size == Cardinality(pool)
    IN IF size = 1 THEN ignore_set(size)
       ELSE LET st == Inc(Counter, "mail_duplicates", size)
            IN IF differences # "ok" THEN reject_set(st, size, differences)
               ELSE select_subset(st, size, selected_uids)

\* Faulty variant of select_candidates: a set of one mail is not set apart.
select_candidates_no_single(pool, differences, cf, selected_uids) ==
    LET size == Cardinality(pool)
        st == Inc(Counter, "mail_duplicates", size)
    IN IF differences # "ok" THEN reject_set(st, size, differences)
       ELSE IF cf.strategy = "" THEN skip_set(st, size)
       ELSE select_subset(st, size, selected_uids)

\* DuplicateSet.select_candidates on a pool, check_differences ending as
\* differences and the strategy (when it is reached) returning selected_uids.
select_candidates(pool, differences, cf, selected_uids) ==
    LET size == Cardinality(pool)
    IN IF size = 1 THEN ignore_set(size)
       ELSE LET st == Inc(Counter, "mail_duplicates", size)
            IN IF differences # "ok" THEN reject_set(st, size, differences)
               ELSE IF cf.strategy = "" THEN skip_set(st, size)
               ELSE select_subset(st, size, selected_uids)

\* The ways check_differences may end for the pool of mails with these sizes
\* and bodies, over the orders in which the frozenset may be iterated.
Differences(attr, orders, cf) ==
    {check_differences(
        [i \in 1..Len(ord) |->
            Mail(ord[i], attr[ord[i]].size, attr[ord[i]].body_lines)],
        cf) : ord \in orders}

\* Whether select_candidates reaches the call of apply_strategy.
ReachesStrategy(mail_set, differences, cf) ==
    /\ Cardinality(mail_set) > 1
    /\ differences = "ok"
    /\ cf.strategy # ""

----------------------------------------------------------------------------
\* Deduplicate

Confs == [size_threshold : Thresholds, content_threshold : Thresholds,
          strategy : {"", "strategy"}, dry_run : BOOLEAN]

\* No DuplicateSet built yet.
NoDuplicateSet == [hash_key |-> TooFewHeaders, pool |-> {},
                   stats |-> Counter, selected_uids |-> <<>>, candidates |-> <<>>]

Init ==
    /\ conf \in Confs
    /\ sources = <<>>
    /\ box = [p \in Paths |-> {}]
    /\ closed = [p \in Paths |-> 0]
    /\ removals = <<>>
    /\ hash_key = <<>>
    /\ mails = <<>>
    /\ selection = <<>>
    /\ stats = Counter
    /\ duplicates = NoDuplicateSet
    /\ pc = "add_source"
    /\ idx = 0
    /\ checked = "no"
    /\ calls = 0

\* The paths add_source may be given: a registered one, or a new one.  Paths
\* are opaque, so they are numbered in the order of their registration.
SourcePaths(srcs) == {p \in Paths : p <= Len(srcs) + 1}

\* The number of mails the stores hold.
MailCount(b) == Sum([p \in Paths |-> Cardinality(b[p])], Paths)

\* The numbers of mails a newly opened box may hold, the stores holding
\* MaxMails mails in all.  A dry run with a strategy and both checks disabled
\* reads no mail's size or body and removes nothing: there the first box may
\* hold one mail more, enough for two sets of duplicates.
MailsFound(cf, srcs, b) ==
    LET quota == IF /\ cf.size_threshold < 0
                    /\ cf.content_threshold < 0
                    /\ cf.strategy # ""
                    /\ cf.dry_run
                    /\ srcs = <<>>
                 THEN MaxMails + 1 ELSE MaxMails
    IN {n \in 0..quota : n = 0 \/ n + MailCount(b) <= quota}

\* Faulty variant of add_source: mail_found is overwritten, not added to.
add_source_overwrite(source_path) ==
    /\ pc = "add_source"
    /\ checked = "no"
    /\ IF source_path \in Range(sources)
       THEN /\ pc' = "ValueError"
            /\ UNCHANGED <<sources, box, stats>>
       ELSE \E mail_found \in MailsFound(conf, sources, box) :
            /\ box' = [box EXCEPT ![source_path] = 1..mail_found]
            /\ sources' = Append(sources, source_path)
            /\ stats' = [stats EXCEPT !["mail_found"] = mail_found]
            /\ pc' = pc
    /\ UNCHANGED <<calls, conf, closed, removals, hash_key, mails, selection,
                   duplicates, idx, checked>>

\* Faulty variant of add_source: a path already registered is registered and
\* counted again.
add_source_twice(source_path) ==
    /\ pc = "add_source"
    /\ checked = "no"
    /\ \E mail_found \in MailsFound(conf, sources, box) :
            /\ box' = [box EXCEPT ![source_path] = 1..mail_found]
            /\ sources' = Append(sources, source_path)
            /\ stats' = Inc(stats, "mail_found", mail_found)
            /\ pc' = pc
    /\ UNCHANGED <<calls, conf, closed, removals, hash_key, mails, selection,
                   duplicates, idx, checked>>

\* add_source(source_path): a path already registered raises ValueError;
\* else the store is opened, with num mails in it, and counted.
add_source(source_path) ==
    /\ pc = "add_source"
    /\ checked = "no"
    /\ IF source_path \in Range(sources)
       THEN /\ pc' = "ValueError"
            /\ UNCHANGED <<sources, box, stats>>
       ELSE \E mail_found \in MailsFound(conf, sources, box) :
            /\ box' = [box EXCEPT ![source_path] = 1..mail_found]
            /\ sources' = Append(sources, source_path)
            /\ stats' = Inc(stats, "mail_found", mail_found)
            /\ pc' = pc
    /\ UNCHANGED <<calls, conf, closed, removals, hash_key, mails, selection,
                   duplicates, idx, checked>>

\* hash_all is entered: its loop starts at the first mail of the first source.
hash_all_begin ==
    /\ pc = "add_source"
    /\ pc' = "hash_all"
    /\ idx' = 1
    /\ UNCHANGED <<calls, conf, sources, box, closed, removals, hash_key, mails,
                   selection, stats, duplicates, checked>>

\* Faulty variant of setdefault_add: the default set is one object shared by
\* all the buckets, so every bucket holds every retained mail.
setdefault_add_shared(ms, mail_hash, mail) ==
    LET shared == UNION {ms[i].mail_set : i \in 1..Len(ms)} \union {mail}
        keyed == IF \E i \in 1..Len(ms) : ms[i].hash_key = mail_hash
                 THEN ms
                 ELSE Append(ms, [hash_key |-> mail_hash, mail_set |-> {}])
    IN [i \in 1..Len(keyed) |-> [keyed[i] EXCEPT !.mail_set = shared]]

\* self.mails.setdefault(mail_hash, set()).add(mail)
setdefault_add(ms, mail_hash, mail) ==
    IF \E i \in 1..Len(ms) : ms[i].hash_key = mail_hash
    THEN [i \in 1..Len(ms) |->
            IF ms[i].hash_key = mail_hash
            THEN [ms[i] EXCEPT !.mail_set = @ \union {mail}]
            ELSE ms[i]]
    ELSE Append(ms, [hash_key |-> mail_hash, mail_set |-> {mail}])

\* What mail.hash_key may give: TooFewHeaders, the key of a bucket, or a key
\* not seen before.  Keys are opaque and only compared for equality, so
\* they are numbered in the order of their first appearance.
HashKeys(ms) ==
    {TooFewHeaders} \union {h \in Hashes : h <= Len(ms) + 1}

\* One round of the loop of hash_all: the next mail's hash_key is read; it
\* raises TooFewHeaders (the mail is rejected) or keys the mail's bucket.
hash_all_mail ==
    /\ pc = "hash_all"
    /\ idx <= Len(Visit(sources, box))
    /\ LET mail == Visit(sources, box)[idx]
       IN \E mail_hash \in HashKeys(mails) :
            /\ hash_key' = hash_key @@ (mail :> mail_hash)
            /\ IF mail_hash = TooFewHeaders
               THEN /\ stats' = Inc(stats, "mail_rejected", 1)
                    /\ mails' = mails
               ELSE /\ mails' = setdefault_add(mails, mail_hash, mail)
                    /\ stats' = Inc(stats, "mail_retained", 1)
    /\ idx' = idx + 1
    /\ UNCHANGED <<calls, conf, sources, box, closed, removals, selection,
                   duplicates, pc, checked>>

\* select_all is entered once hash_all has visited every mail: set_total is
\* recorded and the loop starts at the first bucket.
select_all_begin ==
    /\ pc = "hash_all"
    /\ idx > Len(Visit(sources, box))
    /\ stats' = [stats EXCEPT !["set_total"] = Len(mails)]
    /\ pc' = "select_all"
    /\ idx' = 1
    /\ UNCHANGED <<calls, conf, sources, box, closed, removals, hash_key, mails,
                   selection, duplicates, checked>>

\* Faulty variant of select_all_set: ContentDiffAboveThreshold is not caught
\* and ends select_all.
select_all_set_uncaught ==
    /\ pc = "select_all"
    /\ idx <= Len(mails)
    /\ LET mail_set == mails[idx].mail_set IN
       \E orders \in {IterOrders(mail_set, conf)} :
       \E strategy_returns \in {apply_strategy(mail_set)} :
       \E attr \in MailAttributes(mail_set, conf) :
       \E differences \in Differences(attr, orders, conf) :
       \E selected_uids \in
            IF ReachesStrategy(mail_set, differences, conf)
            THEN strategy_returns ELSE {<<>>} :
          LET pool == frozenset(mail_set, attr)
              r == select_candidates(pool, differences, conf, selected_uids)
              candidates == r.candidates
          IN IF differences = "ContentDiffAboveThreshold"
             THEN /\ pc' = "ContentDiffAboveThreshold"
                  /\ UNCHANGED <<duplicates, selection, stats, idx>>
             ELSE /\ duplicates' = [hash_key |-> mails[idx].hash_key,
                                    pool |-> pool,
                                    stats |-> r.stats,
                                    selected_uids |-> selected_uids,
                                    candidates |-> candidates]
                  /\ selection' = IF candidates # <<>>
                                  THEN selection \o candidates ELSE selection
                  /\ stats' = Merge(stats, r.stats)
                  /\ idx' = idx + 1
                  /\ pc' = pc
    /\ UNCHANGED <<calls, conf, sources, box, closed, removals, hash_key, mails,
                   checked>>

\* Faulty variant of select_all_set: the candidates are put in front of the
\* selection.
select_all_set_prepend ==
    /\ pc = "select_all"
    /\ idx <= Len(mails)
    /\ LET mail_set == mails[idx].mail_set IN
       \E orders \in {IterOrders(mail_set, conf)} :
       \E strategy_returns \in {apply_strategy(mail_set)} :
       \E attr \in MailAttributes(mail_set, conf) :
       \E differences \in Differences(attr, orders, conf) :
       \E selected_uids \in
            IF ReachesStrategy(mail_set, differences, conf)
            THEN strategy_returns ELSE {<<>>} :
          LET pool == frozenset(mail_set, attr)
              r == select_candidates(pool, differences, conf, selected_uids)
              candidates == r.candidates
          IN /\ duplicates' = [hash_key |-> mails[idx].hash_key,
                               pool |-> pool,
                               stats |-> r.stats,
                               selected_uids |-> selected_uids,
                               candidates |-> candidates]
             /\ selection' = IF candidates # <<>>
                             THEN candidates \o selection ELSE selection
             /\ stats' = Merge(stats, r.stats)
    /\ idx' = idx + 1
    /\ UNCHANGED <<calls, conf, sources, box, closed, removals, hash_key, mails,
                   pc, checked>>

\* One round of the loop of select_all: a DuplicateSet is built from the next
\* bucket, its candidates are appended to the selection and its stats merged.
select_all_set ==
    /\ pc = "select_all"
    /\ idx <= Len(mails)
    /\ LET mail_set == mails[idx].mail_set IN
       \* (the two sets of choices are bound here to be computed once)
       \E orders \in {IterOrders(mail_set, conf)} :
       \E strategy_returns \in {apply_strategy(mail_set)} :
       \E attr \in MailAttributes(mail_set, conf) :
       \E differences \in Differences(attr, orders, conf) :
       \E selected_uids \in
            IF ReachesStrategy(mail_set, differences, conf)
            THEN strategy_returns ELSE {<<>>} :
          LET pool == frozenset(mail_set, attr)
              r == select_candidates(pool, differences, conf, selected_uids)
              candidates == r.candidates
          IN /\ duplicates' = [hash_key |-> mails[idx].hash_key,
                               pool |-> pool,
                               stats |-> r.stats,
                               selected_uids |-> selected_uids,
                               candidates |-> candidates]
             /\ selection' = IF candidates # <<>>
                             THEN selection \o candidates ELSE selection
             /\ stats' = Merge(stats, r.stats)
    /\ idx' = idx + 1
    /\ UNCHANGED <<calls, conf, sources, box, closed, removals, hash_key, mails,
                   pc, checked>>

\* The end of select_all: every registered box is closed, and the last
\* DuplicateSet, a local of select_all, is gone when it returns.
select_all_close ==
    /\ pc = "select_all"
    /\ idx > Len(mails)
    /\ closed' = [p \in Paths |->
                    IF p \in Range(sources) THEN closed[p] + 1 ELSE closed[p]]
    /\ duplicates' = NoDuplicateSet
    /\ pc' = "selected"
    /\ UNCHANGED <<calls, conf, sources, box, removals, hash_key, mails, selection,
                   stats, idx, checked>>

\* remove_selection is entered: it asserts that no candidate is flagged twice.
remove_selection_begin ==
    /\ pc = "selected"
    /\ checked = "no"
    /\ pc' = IF unique(selection) = selection
             THEN "remove_selection" ELSE "AssertionError"
    /\ idx' = 1
    /\ calls' = calls + 1
    /\ UNCHANGED <<conf, sources, box, closed, removals, hash_key, mails,
                   selection, stats, duplicates, checked>>

\* Faulty variant of remove_selection_mail: mail_deleted is counted after the
\* removal, and not in a dry run.
remove_selection_mail_count_removed ==
    /\ pc = "remove_selection"
    /\ idx <= Len(selection)
    /\ LET box_path == selection[idx][1]
           mail_id == selection[idx][2]
       IN IF conf.dry_run
          THEN /\ idx' = idx + 1
               /\ UNCHANGED <<box, removals, pc, stats>>
          ELSE \E raises \in BOOLEAN :
                 IF raises \/ mail_id \notin box[box_path]
                 THEN /\ pc' = "StoreError"
                      /\ UNCHANGED <<box, removals, idx, stats>>
                 ELSE /\ box' = [box EXCEPT ![box_path] = @ \ {mail_id}]
                      /\ removals' = Append(removals, <<box_path, mail_id>>)
                      /\ stats' = Inc(stats, "mail_deleted", 1)
                      /\ idx' = idx + 1
                      /\ pc' = pc
    /\ UNCHANGED <<calls, conf, sources, closed, hash_key, mails, selection,
                   duplicates, checked>>

\* Faulty variant of remove_selection_mail: dry_run is not looked at.
remove_selection_mail_no_dry_run ==
    /\ pc = "remove_selection"
    /\ idx <= Len(selection)
    /\ LET box_path == selection[idx][1]
           mail_id == selection[idx][2]
       IN /\ stats' = Inc(stats, "mail_deleted", 1)
          /\ \E raises \in BOOLEAN :
                IF raises \/ mail_id \notin box[box_path]
                THEN /\ pc' = "StoreError"
                     /\ UNCHANGED <<box, removals, idx>>
                ELSE /\ box' = [box EXCEPT ![box_path] = @ \ {mail_id}]
                     /\ removals' = Append(removals, <<box_path, mail_id>>)
                     /\ idx' = idx + 1
                     /\ pc' = pc
    /\ UNCHANGED <<calls, conf, sources, closed, hash_key, mails, selection,
                   duplicates, checked>>

\* One round of the loop of remove_selection: mail_deleted is counted, then
\* the mail is removed from its box unless this is a dry run.  The removal
\* is a store operation that may raise, which ends remove_selection.
remove_selection_mail ==
    /\ pc = "remove_selection"
    /\ idx <= Len(selection)
    /\ LET box_path == selection[idx][1]
           mail_id == selection[idx][2]
       IN /\ stats' = Inc(stats, "mail_deleted", 1)
          /\ IF conf.dry_run
             THEN /\ idx' = idx + 1
                  /\ UNCHANGED <<box, removals, pc>>
             ELSE \E raises \in BOOLEAN :
                    IF raises \/ mail_id \notin box[box_path]
                    THEN /\ pc' = "StoreError"
                         /\ UNCHANGED <<box, removals, idx>>
                    ELSE /\ box' = [box EXCEPT ![box_path] = @ \ {mail_id}]
                         /\ removals' = Append(removals, <<box_path, mail_id>>)
                         /\ idx' = idx + 1
                         /\ pc' = pc
    /\ UNCHANGED <<calls, conf, sources, closed, hash_key, mails, selection,
                   duplicates, checked>>

\* The assertions of check_stats.
StatsConsistent(st) ==
    /\ st["mail_found"] >= st["mail_rejected"]
    /\ st["mail_found"] >= st["mail_retained"]
    /\ st["mail_found"] = st["mail_rejected"] + st["mail_retained"]
    /\ st["mail_retained"] >= st["mail_unique"]
    /\ st["mail_retained"] >= st["mail_duplicates"]
    /\ st["mail_retained"] = st["mail_unique"] + st["mail_duplicates"]
    /\ st["mail_retained"] = st["mail_discarded"] + st["mail_selected"]
    /\ st["mail_selected"] =
         st["mail_copied"] + st["mail_moved"] + st["mail_deleted"]
    /\ st["mail_retained"] >= st["mail_deleted"]
    /\ (st["mail_duplicates"] = 0 \/ st["mail_duplicates"] > st["mail_deleted"])
    /\ st["set_ignored"] = st["mail_unique"]
    /\ st["set_total"] =
         st["set_ignored"] + st["set_rejected_encoding"]
         + st["set_rejected_size"] + st["set_rejected_content"]
         + st["set_skipped"] + st["set_deduplicated"]

\* remove_selection has returned.
Removed == pc = "remove_selection" /\ idx > Len(selection)

\* The pipeline has run: grouping, selection and, optionally, removal.
PipelineRan == pc = "selected" \/ Removed

\* check_stats runs after the pipeline.
check_stats ==
    /\ PipelineRan
    /\ checked = "no"
    /\ checked' = IF StatsConsistent(stats) THEN "ok" ELSE "AssertionError"
    /\ UNCHANGED <<calls, conf, sources, box, closed, removals, hash_key, mails,
                   selection, stats, duplicates, pc, idx>>

Next ==
    \/ \E source_path \in SourcePaths(sources) : add_source(source_path)
    \/ hash_all_begin
    \/ hash_all_mail
    \/ select_all_begin
    \/ select_all_set
    \/ select_all_close
    \/ remove_selection_begin
    \/ remove_selection_mail
    \/ check_stats

Spec == Init /\ [][Next]_vars

\* remove_selection is called again on the same Deduplicate, once an earlier
\* call has returned: the same selection, the stores as that call left them.
remove_selection_again ==
    /\ Removed
    /\ checked = "no"
    /\ calls < MaxCalls
    /\ pc' = IF unique(selection) = selection
             THEN "remove_selection" ELSE "AssertionError"
    /\ idx' = 1
    /\ calls' = calls + 1
    /\ UNCHANGED <<conf, sources, box, closed, removals, hash_key, mails,
                   selection, stats, duplicates, checked>>

\* The runs in which remove_selection may be called more than once.
NextAgain ==
    \/ Next
    \/ remove_selection_again

SpecAgain == Init /\ [][NextAgain]_vars

----------------------------------------------------------------------------
\* Where the run is

\* hash_all has returned.
HashAllReturned ==
    \/ pc = "hash_all" /\ idx > Len(Visit(sources, box))
    \/ pc \in {"select_all", "selected", "remove_selection", "StoreError",
               "AssertionError"}

\* select_all has returned.
SelectAllReturned ==
    pc \in {"selected", "remove_selection", "StoreError", "AssertionError"}

\* The uids of the mails of a DuplicateSet.
PoolUids(d) == {m.uid : m \in d.pool}

\* No element of the sequence occurs twice.
NoDuplicates(s) == \A i, j \in 1..Len(s) : i # j => s[i] # s[j]

\* The sum of the six outcome counters of a Counter.
OutcomeSum(st) ==
    st["set_ignored"] + st["set_skipped"] + st["set_rejected_encoding"]
    + st["set_rejected_size"] + st["set_rejected_content"]
    + st["set_deduplicated"]

\* The number of mails in the buckets whose size satisfies the test.
RECURSIVE SumSeq(_)
SumSeq(s) == IF s = <<>> THEN 0 ELSE Head(s) + SumSeq(Tail(s))

MailsInBuckets(ms, Test(_)) ==
    SumSeq([i \in 1..Len(ms) |->
              IF Test(Cardinality(ms[i].mail_set))
              THEN Cardinality(ms[i].mail_set) ELSE 0])

\* The mails of a DuplicateSet are within the thresholds: check_differences
\* raises in no order of iteration.
PassesChecks(d) ==
    \A ord \in Orders(d.pool) : check_differences(ord, conf) = "ok"

\* What a set may be rejected for: a mail of it cannot be decoded, two of
\* its mails differ in size, or in content, by more than the threshold.
BadEncoding(d) ==
    /\ conf.content_threshold > -1
    /\ \E m \in d.pool : m.body_lines = UnicodeDecodeError

SizeDiverges(d) ==
    /\ conf.size_threshold > -1
    /\ \E mail_a, mail_b \in d.pool :
          abs(mail_a.size - mail_b.size) > conf.size_threshold

ContentDiverges(d) ==
    /\ conf.content_threshold > -1
    /\ \E mail_a, mail_b \in d.pool :
          /\ mail_a.body_lines # UnicodeDecodeError
          /\ mail_b.body_lines # UnicodeDecodeError
          /\ diff(mail_a, mail_b) > conf.content_threshold

\* The number of times a Counter counts a set as rejected.
Rejections(st) ==
    st["set_rejected_encoding"] + st["set_rejected_size"]
    + st["set_rejected_content"]

\* The number of the bucket that holds a mail, in the order of self.mails.
BucketOf(uid) == CHOOSE i \in 1..Len(mails) : uid \in mails[i].mail_set

\* The place, among the mails hash_all visits, of the first mail of a bucket.
FirstSeen(i) ==
    LET visit == Visit(sources, box)
    IN CHOOSE k \in 1..Len(visit) :
          /\ visit[k] \in mails[i].mail_set
          /\ \A j \in 1..(k - 1) : visit[j] \notin mails[i].mail_set

\* The mail is in its store.
InBox(uid) == uid[2] \in box[uid[1]]

\* The buckets with a mail in the selection.
SelectedBuckets ==
    {i \in 1..Len(mails) : mails[i].mail_set \cap Range(selection) # {}}

\* The stores hold every mail hash_all visited.
NothingRemoved == Range(Visit(sources, box)) = DOMAIN hash_key

IsOne(n) == n = 1
IsMany(n) == n > 1

\* The buckets a run of hash_all builds from the mails visit lists, each
\* mail giving the hash key hk records for it.
RECURSIVE hash_all_again(_, _, _)
hash_all_again(visit, hk, ms) ==
    IF visit = <<>> THEN ms
    ELSE hash_all_again(
            Tail(visit), hk,
            IF hk[Head(visit)] = TooFewHeaders THEN ms
            ELSE setdefault_add(ms, hk[Head(visit)], Head(visit)))

----------------------------------------------------------------------------
\* Properties

\* C1: a round of select_all on a set of more than one mail for which the
\* configured strategy returns every member ends Skipped: set_skipped grows
\* by one and mail_discarded by the size of the set, set_deduplicated and
\* mail_selected keep their values, and the selection is left as it was, with
\* none of the set's mails in it.
C1_WholeSetSkipped ==
    [][(/\ pc = "select_all"
        /\ idx' = idx + 1
        /\ conf.strategy # ""
        /\ Cardinality(duplicates'.pool) > 1
        /\ Range(duplicates'.selected_uids) = PoolUids(duplicates'))
       => /\ stats'["set_skipped"] = stats["set_skipped"] + 1
          /\ stats'["mail_discarded"] =
                stats["mail_discarded"] + Cardinality(duplicates'.pool)
          /\ stats'["set_deduplicated"] = stats["set_deduplicated"]
          /\ stats'["mail_selected"] = stats["mail_selected"]
          /\ selection' = selection
          /\ Range(selection') \cap PoolUids(duplicates') = {}]_vars

\* A set of two or more mails was just skipped because the strategy returned
\* all of them.
C1_Witness ==
    /\ pc = "select_all"
    /\ conf.strategy # ""
    /\ Cardinality(duplicates.pool) > 1
    /\ Range(duplicates.selected_uids) = PoolUids(duplicates)
    /\ duplicates.stats["set_skipped"] = 1
    /\ stats["set_skipped"] >= 1

\* C2: the selection never holds a uid twice, so the assertion of
\* remove_selection never fails, and no mail is removed twice.
C2_SelectionUnique ==
    /\ NoDuplicates(selection)
    /\ unique(selection) = selection
    /\ pc # "AssertionError"
    /\ NoDuplicates(removals)

\* remove_selection has removed two mails with the same mail id from two
\* sources.
C2_Witness ==
    /\ Removed
    /\ Len(removals) = 2
    /\ removals[1][1] # removals[2][1]
    /\ removals[1][2] = removals[2][2]

\* C3: once select_all has returned, mail_retained is mail_discarded plus
\* mail_selected; and every set select_all has processed, whatever its
\* outcome, counts each of its mails once as discarded or selected.
C3_RetainedIsDiscardedPlusSelected ==
    /\ SelectAllReturned =>
          stats["mail_retained"] =
              stats["mail_discarded"] + stats["mail_selected"]
    /\ (pc = "select_all" /\ idx > 1) =>
          duplicates.stats["mail_discarded"] + duplicates.stats["mail_selected"]
              = Cardinality(duplicates.pool)

\* select_all has returned after it ignored a set and deduplicated another.
C3_Witness ==
    /\ pc = "selected"
    /\ stats["set_ignored"] > 0
    /\ stats["mail_selected"] > 0
    /\ stats["mail_discarded"] > 1

\* C4: once select_all has returned, mail_retained is mail_unique plus
\* mail_duplicates, mail_unique is the number of mails in buckets of one mail
\* and mail_duplicates the number of mails in buckets of more than one.
C4_RetainedIsUniquePlusDuplicates ==
    SelectAllReturned =>
        /\ stats["mail_retained"] =
              stats["mail_unique"] + stats["mail_duplicates"]
        /\ stats["mail_unique"] = MailsInBuckets(mails, IsOne)
        /\ stats["mail_duplicates"] = MailsInBuckets(mails, IsMany)

\* select_all has returned with a unique mail and a set of duplicates.
C4_Witness ==
    /\ pc = "selected"
    /\ stats["mail_unique"] = 1
    /\ stats["mail_duplicates"] = 2

\* C5: while hash_all runs every visited mail has been counted once, as
\* rejected or as retained; a rejected mail (TooFewHeaders) is in no bucket
\* and a retained mail is in the bucket of its hash key and in no other; once
\* hash_all has returned mail_found is mail_rejected plus mail_retained.
C5_FoundIsRejectedPlusRetained ==
    LET visited == DOMAIN hash_key
        rejected == {u \in visited : hash_key[u] = TooFewHeaders}
    IN /\ pc = "hash_all" =>
            stats["mail_rejected"] + stats["mail_retained"] = idx - 1
       /\ (pc = "hash_all" \/ HashAllReturned) =>
            /\ stats["mail_rejected"] = Cardinality(rejected)
            /\ stats["mail_retained"] = Cardinality(visited \ rejected)
            /\ \A u \in visited : \A i \in 1..Len(mails) :
                  u \in mails[i].mail_set <=> mails[i].hash_key = hash_key[u]
       /\ HashAllReturned =>
            stats["mail_found"] =
                stats["mail_rejected"] + stats["mail_retained"]

\* hash_all has returned after it visited two sources, rejected a mail and
\* retained another.
C5_Witness ==
    /\ pc = "hash_all"
    /\ idx > Len(Visit(sources, box))
    /\ Len(sources) = 2
    /\ box[1] # {}
    /\ box[2] # {}
    /\ stats["mail_rejected"] > 0
    /\ stats["mail_retained"] > 0

\* C6: every set select_all has processed incremented exactly one of the six
\* outcome counters, by one; the outcomes counted so far are the sets
\* processed so far, and once select_all has returned set_total is the sum
\* of the six outcome counters.
C6_OneOutcomePerSet ==
    /\ (pc = "select_all" /\ idx > 1) =>
          /\ \E k \in SetOutcomes :
                /\ duplicates.stats[k] = 1
                /\ \A other \in SetOutcomes \ {k} : duplicates.stats[other] = 0
          /\ OutcomeSum(stats) = idx - 1
    /\ SelectAllReturned => stats["set_total"] = OutcomeSum(stats)

\* select_all has returned after a rejection for size and an ignored set.
C6_Witness ==
    /\ pc = "selected"
    /\ stats["set_total"] = 2
    /\ stats["set_rejected_size"] = 1
    /\ stats["set_ignored"] = 1

C8_DeletedBelowDuplicates ==
    Removed =>
        /\ stats["mail_retained"] >= stats["mail_deleted"]
        /\ \/ stats["mail_duplicates"] = 0
           \/ stats["mail_duplicates"] > stats["mail_deleted"]

\* remove_selection has removed two of three duplicates.
C8_Witness ==
    /\ Removed
    /\ ~conf.dry_run
    /\ stats["mail_duplicates"] = 3
    /\ stats["mail_deleted"] = 2
    /\ Len(removals) = 2

\* C9: in a dry run no removal is performed: the stores hold the mails
\* hash_all visited, and hash_all run again over them builds the same buckets.
C9_DryRunLeavesStores ==
    (conf.dry_run /\ SelectAllReturned) =>
        /\ removals = <<>>
        /\ Range(Visit(sources, box)) = DOMAIN hash_key
        /\ hash_all_again(Visit(sources, box), hash_key, <<>>) = mails

\* A dry run of remove_selection has gone through a selection of two mails.
C9_Witness ==
    /\ Removed
    /\ conf.dry_run
    /\ Len(selection) = 2

C11_AsStated ==
    pc = "StoreError" =>
        /\ ~conf.dry_run
        /\ removals = SubSeq(selection, 1, idx - 1)
        /\ \A i \in 1..Len(selection) :
              selection[i][2] \in box[selection[i][1]] <=> i >= idx
        /\ stats["mail_deleted"] = idx - 1

\* C12 as stated: no removal is invoked on a source that was closed, and once
\* remove_selection has returned every registered source was closed exactly
\* once.
C12_AsStated ==
    /\ [][(pc = "remove_selection" /\ ~conf.dry_run /\ idx' = idx + 1)
            => closed[selection[idx][1]] = 0]_vars
    /\ [](Removed => \A p \in Range(sources) : closed[p] = 1)

\* C13 as stated: a set of more than one mail that select_all has processed
\* with the size check enabled, none of its mails undecodable, and two of its
\* mails differing in size by more than size_threshold, was rejected for size.
C13_AsStated ==
    (/\ pc = "select_all"
     /\ idx > 1
     /\ Cardinality(duplicates.pool) > 1
     /\ conf.size_threshold >= 0
     /\ conf.content_threshold > -1 =>
            \A m \in duplicates.pool : m.body_lines # UnicodeDecodeError
     /\ \E mail_a, mail_b \in duplicates.pool :
            abs(mail_a.size - mail_b.size) > conf.size_threshold)
    => /\ duplicates.stats["set_rejected_size"] = 1
       /\ duplicates.stats["set_rejected_content"] = 0

\* C14: with no strategy configured, every set of more than one mail that is
\* within the thresholds ends Skipped, its mails counted as discarded and none
\* as selected; no set is deduplicated, the selection stays empty, and
\* remove_selection removes no mail.
C14_NoStrategySkips ==
    conf.strategy = "" =>
        /\ selection = <<>>
        /\ removals = <<>>
        /\ stats["mail_selected"] = 0
        /\ stats["set_deduplicated"] = 0
        /\ SelectAllReturned => NothingRemoved
        /\ (/\ pc = "select_all"
            /\ idx > 1
            /\ Cardinality(duplicates.pool) > 1
            /\ PassesChecks(duplicates))
           => /\ duplicates.stats["set_skipped"] = 1
              /\ duplicates.stats["mail_discarded"] =
                    Cardinality(duplicates.pool)
              /\ duplicates.stats["mail_selected"] = 0
              /\ duplicates.candidates = <<>>

\* remove_selection has returned, not in a dry run and with no strategy, after
\* select_all skipped a set of three mails that both checks let pass.
C14_Witness ==
    /\ Removed
    /\ conf.strategy = ""
    /\ ~conf.dry_run
    /\ conf.size_threshold = 0
    /\ conf.content_threshold = 0
    /\ stats["set_skipped"] = 1
    /\ stats["mail_discarded"] = 3

\* C15: a set of one mail ends Ignored whatever the thresholds and the
\* strategy: set_ignored and mail_unique are counted once and nothing else but
\* the discarded mail, neither check reads the mail, the strategy is not
\* applied and the mail is not selected; so set_ignored is mail_unique, while
\* select_all runs and once it has returned, and both are the number of
\* buckets of one mail.
C15_SingleMailIgnored ==
    /\ (/\ pc = "select_all"
        /\ idx > 1
        /\ Cardinality(duplicates.pool) = 1)
       => /\ duplicates.stats =
                Inc(Inc(Inc(Counter, "set_ignored", 1), "mail_unique", 1),
                    "mail_discarded", 1)
          /\ duplicates.candidates = <<>>
          /\ duplicates.selected_uids = <<>>
          /\ \A m \in duplicates.pool :
                /\ m.size = "unread"
                /\ m.body_lines = "unread"
                /\ m.uid \notin Range(selection)
    /\ (pc = "select_all" \/ SelectAllReturned) =>
          stats["set_ignored"] = stats["mail_unique"]
    /\ SelectAllReturned =>
          stats["set_ignored"] = MailsInBuckets(mails, IsOne)

\* select_all has just ignored a set of one mail, with both checks enabled
\* and a strategy configured.
C15_Witness ==
    /\ pc = "select_all"
    /\ idx > 1
    /\ Cardinality(duplicates.pool) = 1
    /\ conf.size_threshold = 0
    /\ conf.content_threshold = 0
    /\ conf.strategy # ""
    /\ duplicates.stats["set_ignored"] = 1

\* C16: a round of select_all never ends select_all: it goes on to the next
\* bucket.  A set of more than one mail that is not within the thresholds is
\* counted once as rejected, under a counter whose condition it has, and a
\* set that is within them but has no strategy, or of which the strategy
\* selected every mail, is counted once as skipped; either way it is not
\* counted as deduplicated, its mails are counted as discarded, its stats are
\* merged and the selection is left as it was.  So when select_all has
\* returned every bucket has been counted under an outcome.
C16_RecoverableGoesOn ==
    /\ [][(pc = "select_all" /\ idx <= Len(mails)) =>
            LET d == duplicates'
                size == Cardinality(mails[idx].mail_set)
            IN /\ pc' = "select_all"
               /\ idx' = idx + 1
               /\ PoolUids(d) = mails[idx].mail_set
               /\ stats' = Merge(stats, d.stats)
               /\ \A rejected \in {size > 1 /\ ~PassesChecks(d)} :
                  \A skipped \in {/\ size > 1
                                  /\ ~rejected
                                  /\ \/ conf.strategy = ""
                                     \/ Range(d.selected_uids) = PoolUids(d)} :
                  (rejected \/ skipped) =>
                     /\ Rejections(d.stats) = (IF rejected THEN 1 ELSE 0)
                     /\ d.stats["set_skipped"] = (IF skipped THEN 1 ELSE 0)
                     /\ d.stats["set_rejected_encoding"] = 1 => BadEncoding(d)
                     /\ d.stats["set_rejected_size"] = 1 => SizeDiverges(d)
                     /\ d.stats["set_rejected_content"] = 1 => ContentDiverges(d)
                     /\ d.stats["set_deduplicated"] = 0
                     /\ d.stats["mail_selected"] = 0
                     /\ d.stats["mail_discarded"] = size
                     /\ d.candidates = <<>>
                     /\ selection' = selection]_vars
    /\ [](SelectAllReturned => OutcomeSum(stats) = Len(mails))

\* select_all has returned after it rejected the first bucket, of two mails,
\* for its encoding, and went on to the second, which it ignored.
C16_Witness ==
    /\ pc = "selected"
    /\ Len(mails) = 2
    /\ Cardinality(mails[1].mail_set) = 2
    /\ stats["set_rejected_encoding"] = 1
    /\ stats["set_ignored"] = 1

\* C17 as stated: a second call of remove_selection, with the same selection
\* and the stores as the first call left them, removes no mail, raises no
\* error of the store and changes no counter; and the buckets hash_all builds
\* from the stores after the removals hold none of the removed mails.
C17_AsStated ==
    /\ [][(calls >= 2 /\ pc = "remove_selection") =>
            /\ removals' = removals
            /\ box' = box
            /\ stats' = stats
            /\ pc' # "StoreError"]_vars
    /\ [](Removed =>
            LET again == hash_all_again(Visit(sources, box), hash_key, <<>>)
            IN \A i \in 1..Len(again) :
                  again[i].mail_set \cap Range(removals) = {})

\* C18: the buckets are kept in the order in which hash_all first saw their
\* hash keys.  select_all records set_total, the number of buckets, before its
\* first round, and each round takes the next bucket in that order, appends
\* the bucket's candidates to the selection and merges the bucket's stats,
\* whole, before the next round; so the selected mails come in the order of
\* their buckets, all of them from buckets already processed.
C18_BucketOrder ==
    /\ [][(pc = "select_all" /\ idx <= Len(mails)) =>
            /\ duplicates'.hash_key = mails[idx].hash_key
            /\ PoolUids(duplicates') = mails[idx].mail_set
            /\ selection' = selection \o duplicates'.candidates
            /\ stats' = Merge(stats, duplicates'.stats)
            /\ stats'["set_total"] = stats["set_total"]
            /\ idx' = idx + 1
            /\ mails' = mails]_vars
    /\ [](pc \in {"add_source", "ValueError", "hash_all"} =>
            stats["set_total"] = 0 /\ selection = <<>>)
    /\ []((pc = "select_all" \/ SelectAllReturned) =>
            stats["set_total"] = Len(mails))
    /\ [](pc = "select_all" =>
            \A i \in 1..Len(selection) : BucketOf(selection[i]) < idx)
    /\ [](\A i, j \in 1..Len(selection) :
            i < j => BucketOf(selection[i]) <= BucketOf(selection[j]))
    /\ [](removals = <<>> =>
            \A i, j \in 1..Len(mails) :
                /\ i # j => mails[i].hash_key # mails[j].hash_key
                /\ i < j => FirstSeen(i) < FirstSeen(j))

\* select_all has returned a selection of a mail of the first bucket followed
\* by a mail of the second; the second bucket's hash key was seen before the
\* second mail of the first bucket.
C18_Witness ==
    /\ pc = "selected"
    /\ Len(mails) = 2
    /\ Len(selection) = 2
    /\ selection[1] \in mails[1].mail_set
    /\ selection[2] \in mails[2].mail_set
    /\ \E k \in 1..Len(Visit(sources, box)) :
          /\ k > FirstSeen(2)
          /\ Visit(sources, box)[k] \in mails[1].mail_set

\* C19: every bucket keeps a mail that is not selected, and so a mail in its
\* store whatever remove_selection removes, for it removes selected mails
\* only.  A set that is not counted as deduplicated (ignored, rejected or
\* skipped) leaves none of its mails in the selection: no more buckets have
\* a selected mail than sets were deduplicated.
C19_EveryBucketKeepsAMail ==
    /\ \A i \in 1..Len(mails) :
          /\ mails[i].mail_set \ Range(selection) # {}
          /\ \E uid \in mails[i].mail_set : InBox(uid)
          /\ Cardinality(mails[i].mail_set) = 1 =>
                \A uid \in mails[i].mail_set : InBox(uid)
    /\ Range(removals) \subseteq Range(selection)
    /\ \A uid \in DOMAIN hash_key : InBox(uid) <=> uid \notin Range(removals)
    /\ (pc = "select_all" /\ idx > 1
            /\ duplicates.stats["set_deduplicated"] = 0) =>
          PoolUids(duplicates) \cap Range(selection) = {}
    /\ Cardinality(SelectedBuckets) <= stats["set_deduplicated"]

\* remove_selection has returned, not in a dry run: it removed one of the two
\* mails of a bucket, and no other bucket has lost its only mail.
C19_Witness ==
    /\ Removed
    /\ ~conf.dry_run
    /\ Len(mails) = 2
    /\ Len(removals) = 1
    /\ stats["set_ignored"] = 1
    /\ stats["set_deduplicated"] = 1

C21_AsStated ==
    /\ (/\ pc = "select_all"
        /\ idx > 1
        /\ duplicates.stats["set_deduplicated"] = 1)
       => /\ Len(duplicates.candidates) >= 1
          /\ Len(duplicates.candidates) <= Cardinality(duplicates.pool) - 1
          /\ Range(duplicates.candidates) \subseteq Range(selection)
    /\ SelectAllReturned =>
          /\ stats["mail_selected"] >= stats["set_deduplicated"]
          /\ Len(selection) = stats["mail_selected"]

====
